---------------------------- MODULE Spec2Model ----------------------------
(***************************************************************************)
(* Tamil Hangman (two-team tournament): the state of the App component,    *)
(* its event handlers and the asynchronous round-load (loadPuzzle) with    *)
(* the Content Provider requests it issues.                                *)
(*                                                                         *)
(* Every handler runs to completion on React's single thread, so a handler *)
(* and the state updates it batches are one step.  loadPuzzle is an async  *)
(* function: it suspends at the word request and at the join of the three  *)
(* image requests and the audio request; each settlement of a request is a *)
(* step, and the continuation that a settlement resumes runs in that step. *)
(***************************************************************************)
EXTENDS Integers, Sequences, FiniteSets, TLC

VARIABLES
    mounted,        \* the mount effect (App.tsx:132-134) has run
    status,         \* GameStatus
    difficulty,     \* Difficulty
    wordData,       \* GameWordData | null: <<>> is null, <<rec>> holds rec
    images,         \* GameImage[]
    audioData,      \* string | null
    guessedLetters, \* Set<string>
    wrongGuesses,   \* number
    errorMsg,       \* string | null
    usedWords,      \* string[]
    scores,         \* { A: number; B: number }
    currentTeam,    \* 'A' | 'B'
    roundStarter,   \* 'A' | 'B'
    roundNumber,    \* number
    loadSeq,        \* number of loadPuzzle invocations so far
    running,        \* the suspended loadPuzzle invocations, by invocation number
    inflight,       \* the Content Provider requests that have not settled
    failures,       \* number of requests the Content Provider has failed
    lastEvent       \* the last handler or callback that ran, and how it ended

gameVars   == <<status, difficulty, wordData, images, audioData, guessedLetters,
                wrongGuesses, errorMsg, usedWords>>
seriesVars == <<scores, currentTeam, roundStarter, roundNumber>>
loadVars   == <<loadSeq, running, inflight, failures>>
vars       == <<mounted, gameVars, seriesVars, loadVars, lastEvent>>

---------------------------------------------------------------------------
(* Bounds of the model *)

\* loadPuzzle invocations in one run
MaxLoads == 7
\* Content Provider requests (word or image) that fail in one run
MaxFailures == 1
\* requests of a finished (failed) load that are still in flight at any time
MaxLate == 1
\* loadPuzzle invocations that start while such a request stays in flight
MaxLateAge == 1

---------------------------------------------------------------------------
(* Types and constants of the program *)

TOTAL_ROUNDS == 6

Null == "null"

Difficulty == {"EASY", "MEDIUM", "HARD"}

\* One limit for every difficulty.
GUESS_LIMITS_FLAT == [d \in Difficulty |-> 6]

GUESS_LIMITS == [d \in Difficulty |->
                    CASE d = "EASY"   -> 8
                      [] d = "MEDIUM" -> 6
                      [] d = "HARD"   -> 4]

Team == {"A", "B"}

GenericError == "Oops! Something went wrong loading the game. Please try again."

Undefined == "undefined"

---------------------------------------------------------------------------
(* The external collaborators: the Content Provider's repertoire and the   *)
(* grapheme segmenter, on the words of that repertoire.                    *)

\* The word records (GameWordData) the Content Provider answers with.
Records ==
    << [word |-> "kan", english |-> "eye", transliteration |-> "kan",
        distractors |-> <<"ear", "nose">>,
        distractorLetters |-> <<"maa", "ti", "ka">>],
       [word |-> "maamaa", english |-> "uncle", transliteration |-> "maamaa",
        distractors |-> <<"aunt", "boy">>,
        distractorLetters |-> <<"ka", "ti", "ti">>],
       [word |-> "", english |-> "nothing", transliteration |-> "",
        distractors |-> <<"ear">>,
        distractorLetters |-> <<>>] >>

\* Intl.Segmenter('ta', grapheme) on the words above:
\* "kan" is ka + N, "maamaa" is maa + maa, the empty word has no segment.
segmentText(text) ==
    CASE text = "kan"    -> <<"ka", "N">>
      [] text = "maamaa" -> <<"maa", "maa">>
      [] OTHER           -> <<>>

\* The strings a guess can carry.
Letters == {"ka", "N", "maa", "ti"}

\* The record the provider returns for a request: a function of the prompt
\* (difficulty and the words to avoid), cycling through its repertoire from
\* a place that depends on the difficulty.
DifficultyOffset(d) ==
    CASE d = "EASY"   -> 0
      [] d = "MEDIUM" -> 1
      [] d = "HARD"   -> 2

ProviderRecord(d, previousWords) ==
    Records[((Len(previousWords) + DifficultyOffset(d)) % Len(Records)) + 1]

\* What a successful image request returns for a label (a data URI), and the
\* two results of an audio request: the PCM data, or "" when the upstream
\* call failed or carried no audio.
ImageData(label) == <<"data:image", label>>
AudioPcm == "pcm"
AudioEmpty == ""

---------------------------------------------------------------------------
(* Derived state (useMemo) *)

Range(seq) == {seq[i] : i \in DOMAIN seq}

SelectSeq2(seq, S) == SelectSeq(seq, LAMBDA l : l \notin S)

wordSegments == IF wordData = <<>> THEN <<>> ELSE segmentText(wordData[1].word)

\* new Set(segments), as Array.from lists it: first occurrences, in order.
RECURSIVE Dedupe(_)
Dedupe(seq) ==
    IF seq = <<>> THEN <<>>
    ELSE LET front == Dedupe(SubSeq(seq, 1, Len(seq) - 1))
             last  == seq[Len(seq)]
         IN  IF last \in Range(front) THEN front ELSE Append(front, last)

\* A keyboard made of the distractor letters alone.
keyboardLettersDistractorsOnly ==
    IF wordData = <<>> THEN <<>>
    ELSE LET targetSet == Dedupe(segmentText(wordData[1].word))
         IN  SelectSeq2(wordData[1].distractorLetters, Range(targetSet))

\* The letters of the keyboard as combined, before the shuffle: the target
\* letter set, then the distractor letters that are not target letters.  The
\* shuffle permutes this list; it changes neither its length nor its values.
keyboardLetters ==
    IF wordData = <<>> THEN <<>>
    ELSE LET targetSet == Dedupe(segmentText(wordData[1].word))
             validDistractors ==
                 SelectSeq2(wordData[1].distractorLetters, Range(targetSet))
         IN  targetSet \o validDistractors

\* A series resolution that gives an even series to team A (>= for >).
winnerOnEqual(s) ==
    IF s["A"] >= s["B"] THEN "Team A"
    ELSE IF s["B"] > s["A"] THEN "Team B"
    ELSE "Tie"

\* Line 243: the winner the series-over screen shows for the scores s.
winner(s) ==
    IF s["A"] > s["B"] THEN "Team A"
    ELSE IF s["B"] > s["A"] THEN "Team B"
    ELSE "Tie"

---------------------------------------------------------------------------
Init ==
    /\ mounted = FALSE
    /\ status = "IDLE"
    /\ difficulty = "EASY"
    /\ wordData = <<>>
    /\ images = <<>>
    /\ audioData = Null
    /\ guessedLetters = {}
    /\ wrongGuesses = 0
    /\ errorMsg = Null
    /\ usedWords = <<>>
    /\ scores = [A |-> 0, B |-> 0]
    /\ currentTeam = "A"
    /\ roundStarter = "A"
    /\ roundNumber = 1
    /\ loadSeq = 0
    /\ running = {}
    /\ inflight = {}
    /\ failures = 0
    /\ lastEvent = [op |-> "render", n |-> 0]

Event(op) == [op |-> op, n |-> 0]

Other(team) == IF team = "A" THEN "B" ELSE "A"

---------------------------------------------------------------------------
(* loadPuzzle: the round-load *)

Request(id, kind, idx) == [load |-> id, kind |-> kind, idx |-> idx]

\* The requests in flight that belong to no suspended loadPuzzle invocation:
\* their invocation has already left through its catch block.
Late(reqs, runs) == {r \in reqs : \A l \in runs : l.id # r.load}

\* Lines 56-64: the synchronous part of loadPuzzle, up to the suspension at
\* the word request.  previousWords is the usedWords of the render whose
\* closure makes the call.
loadPuzzle(currentDifficulty) ==
    /\ loadSeq < MaxLoads
    /\ \A r \in Late(inflight, running) : loadSeq - r.load < MaxLateAge
    /\ status' = "LOADING"
    /\ errorMsg' = Null
    /\ guessedLetters' = {}
    /\ wrongGuesses' = 0
    /\ images' = <<>>
    /\ audioData' = Null
    /\ loadSeq' = loadSeq + 1
    /\ running' = running \cup
           {[id |-> loadSeq + 1, phase |-> "word",
             difficulty |-> currentDifficulty, previousWords |-> usedWords,
             data |-> <<>>, got |-> {}, audio |-> Null]}
    /\ inflight' = inflight \cup {Request(loadSeq + 1, "word", 0)}
    /\ UNCHANGED <<wordData, failures>>

\* Lines 71-75: the three image prompts of a word record.  Indexing an array
\* past its end gives undefined.
imagePrompts(data) ==
    LET distractor(i) == IF i <= Len(data.distractors)
                         THEN data.distractors[i] ELSE Undefined
    IN  << [label |-> data.english,  isTarget |-> TRUE],
           [label |-> distractor(1), isTarget |-> FALSE],
           [label |-> distractor(2), isTarget |-> FALSE] >>

\* Lines 77-80 and 86: the images Promise.all yields, in the order of the
\* prompts whatever the order of arrival.
loadedImages(data) ==
    [i \in 1..3 |->
        [label    |-> imagePrompts(data)[i].label,
         isTarget |-> imagePrompts(data)[i].isTarget,
         src      |-> ImageData(imagePrompts(data)[i].label)]]

\* A catch block that presents the round with whatever was stored.
LoadFailedPresented ==
    /\ errorMsg' = GenericError
    /\ status' = "PLAYING"

\* Lines 94-97: the catch block.
LoadFailed ==
    /\ errorMsg' = GenericError
    /\ status' = "ERROR"

\* Lines 64-83: the word request is fulfilled; loadPuzzle resumes, stores the
\* record, extends the history and issues the three image requests and the
\* audio request.
WordFulfilled(l) ==
    /\ l \in running /\ l.phase = "word"
    /\ Request(l.id, "word", 0) \in inflight
    /\ LET data == ProviderRecord(l.difficulty, l.previousWords)
       IN  /\ wordData' = <<data>>
           /\ usedWords' = Append(usedWords, data.word)
           /\ running' = (running \ {l}) \cup
                  {[l EXCEPT !.phase = "assets", !.data = <<data>>]}
    /\ inflight' = (inflight \ {Request(l.id, "word", 0)})
                       \cup {Request(l.id, "image", i) : i \in 1..3}
                       \cup {Request(l.id, "audio", 0)}
    /\ lastEvent' = Event("wordFulfilled")
    /\ UNCHANGED <<mounted, status, difficulty, images, audioData, guessedLetters,
                   wrongGuesses, errorMsg, seriesVars, loadSeq, failures>>

\* geminiService.ts:62-65 and App.tsx:94-97: the word request is rejected (the
\* upstream call fails, the response is empty or is not JSON).
WordRejected(l) ==
    /\ l \in running /\ l.phase = "word"
    /\ Request(l.id, "word", 0) \in inflight
    /\ failures < MaxFailures
    /\ failures' = failures + 1
    /\ inflight' = inflight \ {Request(l.id, "word", 0)}
    /\ running' = running \ {l}
    /\ LoadFailed
    /\ lastEvent' = Event("wordRejected")
    /\ UNCHANGED <<mounted, difficulty, wordData, images, audioData, guessedLetters,
                   wrongGuesses, usedWords, seriesVars, loadSeq>>

\* A join that waits for the images only.
JoinedOnImages(l) == l.got = 1..3

\* Line 85: the join.  Promise.all is fulfilled once the three image
\* promises are fulfilled and the audio promise is settled.
Joined(l) == l.got = 1..3 /\ l.audio # Null

\* Lines 90-92: the join is fulfilled; loadPuzzle resumes and stores the
\* results.
LoadSucceeded(l) ==
    /\ images' = loadedImages(l.data[1])
    /\ audioData' = l.audio
    /\ status' = "PLAYING"
    /\ UNCHANGED errorMsg

\* One asset request of a suspended invocation is fulfilled, which leaves
\* the invocation as l2: it resumes if that fulfils the join.
AssetFulfilled(l, l2, r) ==
    /\ inflight' = inflight \ {r}
    /\ IF Joined(l2)
       THEN /\ running' = running \ {l}
            /\ LoadSucceeded(l2)
       ELSE /\ running' = (running \ {l}) \cup {l2}
            /\ UNCHANGED <<images, audioData, status, errorMsg>>
    /\ UNCHANGED <<mounted, difficulty, wordData, guessedLetters, wrongGuesses,
                   usedWords, seriesVars, loadSeq, failures>>

\* geminiService.ts:74-87 and App.tsx:77-80: an image request of a suspended
\* invocation returns image data.
ImageFulfilled(l, i) ==
    /\ l \in running /\ l.phase = "assets"
    /\ Request(l.id, "image", i) \in inflight
    /\ AssetFulfilled(l, [l EXCEPT !.got = @ \cup {i}], Request(l.id, "image", i))
    /\ lastEvent' = Event("imageFulfilled")

\* geminiService.ts:88-93: an image request of a suspended invocation fails
\* (upstream error, or no image part in the response) and rethrows; the
\* join rejects at once and loadPuzzle leaves through its catch block, while
\* the invocation's other requests stay in flight.
ImageRejected(l, i) ==
    /\ l \in running /\ l.phase = "assets"
    /\ Request(l.id, "image", i) \in inflight
    /\ failures < MaxFailures
    /\ failures' = failures + 1
    /\ inflight' = inflight \ {Request(l.id, "image", i)}
    /\ running' = running \ {l}
    /\ Cardinality(Late(inflight', running')) <= MaxLate
    /\ LoadFailed
    /\ lastEvent' = [op |-> "imageRejected",
                     n  |-> Cardinality(l.got) + (IF l.audio # Null THEN 1 ELSE 0)]
    /\ UNCHANGED <<mounted, difficulty, wordData, images, audioData, guessedLetters,
                   wrongGuesses, usedWords, seriesVars, loadSeq>>

\* An audio request that rethrows its failure, as the image request does:
\* the join rejects and loadPuzzle leaves through its catch block.
AudioSettledRethrows(l, result) ==
    /\ l \in running /\ l.phase = "assets"
    /\ Request(l.id, "audio", 0) \in inflight
    /\ IF result = AudioEmpty
       THEN /\ inflight' = inflight \ {Request(l.id, "audio", 0)}
            /\ running' = running \ {l}
            /\ LoadFailed
            /\ UNCHANGED <<mounted, difficulty, wordData, images, audioData,
                           guessedLetters, wrongGuesses, usedWords, seriesVars,
                           loadSeq, failures>>
       ELSE AssetFulfilled(l, [l EXCEPT !.audio = result], Request(l.id, "audio", 0))
    /\ lastEvent' = Event(IF result = AudioEmpty THEN "audioEmpty" ELSE "audioFulfilled")

\* geminiService.ts:96-118: the audio request of a suspended invocation
\* settles.  It never rejects: the result is the PCM data, or "" when the
\* upstream call failed or carried no audio.
AudioSettled(l, result) ==
    /\ l \in running /\ l.phase = "assets"
    /\ Request(l.id, "audio", 0) \in inflight
    /\ AssetFulfilled(l, [l EXCEPT !.audio = result], Request(l.id, "audio", 0))
    /\ lastEvent' = Event(IF result = AudioEmpty THEN "audioEmpty" ELSE "audioFulfilled")

\* A late settlement whose callback reports to the state on its own, with no
\* check that its invocation is still the one being loaded.
LateSettledReported(r) ==
    /\ r \in Late(inflight, running)
    /\ inflight' = inflight \ {r}
    /\ lastEvent' = [op |-> "lateSettled", n |-> r.load]
    /\ LoadFailed
    /\ UNCHANGED <<mounted, difficulty, wordData, images, audioData, guessedLetters,
                   wrongGuesses, usedWords, seriesVars, loadSeq, running, failures>>

\* A late settlement that completes its load: the round is presented.
LateSettledPresented(r) ==
    /\ r \in Late(inflight, running)
    /\ inflight' = inflight \ {r}
    /\ lastEvent' = [op |-> "lateSettled", n |-> r.load]
    /\ status' = "PLAYING"
    /\ UNCHANGED <<mounted, difficulty, wordData, images, audioData, guessedLetters,
                   wrongGuesses, errorMsg, usedWords, seriesVars, loadSeq, running,
                   failures>>

\* A request settles whose invocation has already left loadPuzzle: nothing
\* awaits the promise, and no state is written.
LateSettled(r) ==
    /\ r \in Late(inflight, running)
    /\ inflight' = inflight \ {r}
    /\ lastEvent' = [op |-> "lateSettled", n |-> r.load]
    /\ UNCHANGED <<mounted, gameVars, seriesVars, loadSeq, running, failures>>

---------------------------------------------------------------------------
(* The event handlers.  A button that is not rendered cannot be clicked:     *)
(* the guards of the click handlers are the conditions under which the      *)
(* render shows their button.  handleGuess carries its own guard, and is    *)
(* modelled for every letter in every state.                                *)

\* Lines 101-103 and 132-134: the mount effect calls initSeries.
Mount ==
    /\ ~mounted
    /\ mounted' = TRUE
    /\ status' = "DIFFICULTY_SELECT"
    /\ lastEvent' = Event("mount")
    /\ UNCHANGED <<difficulty, wordData, images, audioData, guessedLetters,
                   wrongGuesses, errorMsg, usedWords, seriesVars, loadVars>>

\* Lines 101-103 and 275-280: "Start New Match" on the series-over screen.
initSeries ==
    /\ mounted
    /\ status = "SERIES_OVER"
    /\ status' = "DIFFICULTY_SELECT"
    /\ lastEvent' = Event("initSeries")
    /\ UNCHANGED <<mounted, difficulty, wordData, images, audioData, guessedLetters,
                   wrongGuesses, errorMsg, usedWords, seriesVars, loadVars>>

\* A difficulty button that is there to click in every status.
startNewSeriesAnytime(selectedDifficulty) ==
    /\ mounted
    /\ difficulty' = selectedDifficulty
    /\ scores' = [A |-> 0, B |-> 0]
    /\ roundNumber' = 1
    /\ roundStarter' = "A"
    /\ currentTeam' = "A"
    /\ usedWords' = <<>>
    /\ loadPuzzle(selectedDifficulty)
    /\ lastEvent' = Event("startNewSeries")
    /\ UNCHANGED mounted

\* A new series that keeps the scores of the one before.
startNewSeriesKeepsScores(selectedDifficulty) ==
    /\ mounted
    /\ status \in {"DIFFICULTY_SELECT", "IDLE"}
    /\ difficulty' = selectedDifficulty
    /\ roundNumber' = 1
    /\ roundStarter' = "A"
    /\ currentTeam' = "A"
    /\ usedWords' = <<>>
    /\ loadPuzzle(selectedDifficulty)
    /\ lastEvent' = Event("startNewSeries")
    /\ UNCHANGED <<mounted, scores>>

\* Lines 105-113 and 203-236: a difficulty button.  loadPuzzle is the closure
\* of the current render: the history it passes on is the current usedWords,
\* not the one setUsedWords([]) leaves.
startNewSeries(selectedDifficulty) ==
    /\ mounted
    /\ status \in {"DIFFICULTY_SELECT", "IDLE"}
    /\ difficulty' = selectedDifficulty
    /\ scores' = [A |-> 0, B |-> 0]
    /\ roundNumber' = 1
    /\ roundStarter' = "A"
    /\ currentTeam' = "A"
    /\ usedWords' = <<>>
    /\ loadPuzzle(selectedDifficulty)
    /\ lastEvent' = Event("startNewSeries")
    /\ UNCHANGED mounted

\* A next round that the same team starts again.
handleNextRoundSameStarter ==
    /\ mounted
    /\ status \in {"WON", "LOST"}
    /\ IF roundNumber >= TOTAL_ROUNDS
       THEN /\ status' = "SERIES_OVER"
            /\ UNCHANGED <<difficulty, wordData, images, audioData, guessedLetters,
                           wrongGuesses, errorMsg, usedWords, seriesVars, loadVars>>
       ELSE /\ roundNumber' = roundNumber + 1
            /\ roundStarter' = roundStarter
            /\ currentTeam' = roundStarter
            /\ loadPuzzle(difficulty)
            /\ UNCHANGED <<difficulty, usedWords, scores>>
    /\ lastEvent' = Event("handleNextRound")
    /\ UNCHANGED mounted

\* A next round that leaves the turn with the team that made the last guess.
handleNextRoundKeepsTurn ==
    /\ mounted
    /\ status \in {"WON", "LOST"}
    /\ IF roundNumber >= TOTAL_ROUNDS
       THEN /\ status' = "SERIES_OVER"
            /\ UNCHANGED <<difficulty, wordData, images, audioData, guessedLetters,
                           wrongGuesses, errorMsg, usedWords, seriesVars, loadVars>>
       ELSE /\ roundNumber' = roundNumber + 1
            /\ roundStarter' = Other(roundStarter)
            /\ currentTeam' = currentTeam
            /\ loadPuzzle(difficulty)
            /\ UNCHANGED <<difficulty, usedWords, scores>>
    /\ lastEvent' = Event("handleNextRound")
    /\ UNCHANGED mounted

\* A next round that ends the series only past the last round (> for >=).
handleNextRoundPastTotal ==
    /\ mounted
    /\ status \in {"WON", "LOST"}
    /\ IF roundNumber > TOTAL_ROUNDS
       THEN /\ status' = "SERIES_OVER"
            /\ UNCHANGED <<difficulty, wordData, images, audioData, guessedLetters,
                           wrongGuesses, errorMsg, usedWords, seriesVars, loadVars>>
       ELSE /\ roundNumber' = roundNumber + 1
            /\ roundStarter' = Other(roundStarter)
            /\ currentTeam' = Other(roundStarter)
            /\ loadPuzzle(difficulty)
            /\ UNCHANGED <<difficulty, usedWords, scores>>
    /\ lastEvent' = Event("handleNextRound")
    /\ UNCHANGED mounted

\* Lines 115-129 and 434-441: the "next" button of a resolved round.
handleNextRound ==
    /\ mounted
    /\ status \in {"WON", "LOST"}
    /\ IF roundNumber >= TOTAL_ROUNDS
       THEN /\ status' = "SERIES_OVER"
            /\ UNCHANGED <<difficulty, wordData, images, audioData, guessedLetters,
                           wrongGuesses, errorMsg, usedWords, seriesVars, loadVars>>
       ELSE /\ roundNumber' = roundNumber + 1
            /\ roundStarter' = Other(roundStarter)
            /\ currentTeam' = Other(roundStarter)
            /\ loadPuzzle(difficulty)
            /\ UNCHANGED <<difficulty, usedWords, scores>>
    /\ lastEvent' = Event("handleNextRound")
    /\ UNCHANGED mounted

\* A retry that keeps the word it has and starts again at the asset requests.
RetryFromAssets ==
    /\ mounted
    /\ status = "ERROR"
    /\ IF wordData = <<>>
       THEN loadPuzzle(difficulty)
       ELSE /\ loadSeq < MaxLoads
            /\ status' = "LOADING"
            /\ errorMsg' = Null
            /\ guessedLetters' = {}
            /\ wrongGuesses' = 0
            /\ images' = <<>>
            /\ audioData' = Null
            /\ loadSeq' = loadSeq + 1
            /\ running' = running \cup
                   {[id |-> loadSeq + 1, phase |-> "assets",
                     difficulty |-> difficulty, previousWords |-> usedWords,
                     data |-> wordData, got |-> {}, audio |-> Null]}
            /\ inflight' = inflight \cup {Request(loadSeq + 1, "image", i) : i \in 1..3}
                                    \cup {Request(loadSeq + 1, "audio", 0)}
            /\ UNCHANGED <<wordData, failures>>
    /\ lastEvent' = Event("retry")
    /\ UNCHANGED <<mounted, difficulty, usedWords, seriesVars>>

\* A retry that hands the turn to the other team.
RetryPassesTurn ==
    /\ mounted
    /\ status = "ERROR"
    /\ loadPuzzle(difficulty)
    /\ currentTeam' = Other(currentTeam)
    /\ lastEvent' = Event("retry")
    /\ UNCHANGED <<mounted, difficulty, usedWords, scores, roundStarter, roundNumber>>

\* A retry that moves on to the next round, as the Next button does.
RetryNextRound ==
    /\ mounted
    /\ status = "ERROR"
    /\ roundNumber < TOTAL_ROUNDS
    /\ roundNumber' = roundNumber + 1
    /\ roundStarter' = Other(roundStarter)
    /\ currentTeam' = Other(roundStarter)
    /\ loadPuzzle(difficulty)
    /\ lastEvent' = Event("retry")
    /\ UNCHANGED <<mounted, difficulty, usedWords, scores>>

\* Lines 350-355: the Retry button of the error panel.
Retry ==
    /\ mounted
    /\ status = "ERROR"
    /\ loadPuzzle(difficulty)
    /\ lastEvent' = Event("retry")
    /\ UNCHANGED <<mounted, difficulty, usedWords, seriesVars>>

\* handleGuess without its guard.
GuessAcceptedAlways == TRUE

\* A guard that lets a guess through while the round is loading.
GuessAcceptedWhileLoading == status \in {"PLAYING", "LOADING"}

\* A guard that lets a guess through after the round has ended.
GuessAcceptedAfterEnd == status \in {"PLAYING", "WON", "LOST"}

\* Line 147: the guard of handleGuess.
GuessAccepted == status = "PLAYING"

\* Line 154: wordSegments.includes(letter).
isCorrect(letter) == letter \in Range(wordSegments)

\* A win check that counts the guessed target letters against the length of
\* the word, so that a repeated segment needs as many guesses as it occurs.
allGuessedByCount(newGuessed) ==
    Cardinality(newGuessed \cap Range(wordSegments)) >= Len(wordSegments)

\* Line 171: wordSegments.every(seg => newGuessed.has(seg)).
allGuessed(newGuessed) == \A i \in DOMAIN wordSegments : wordSegments[i] \in newGuessed

\* A wrong guess that loses only past the limit (> for >=).
WrongGuessPastLimit ==
    LET newWrong == wrongGuesses + 1
        maxGuesses == GUESS_LIMITS[difficulty]
    IN  /\ wrongGuesses' = newWrong
        /\ IF newWrong > maxGuesses
           THEN /\ status' = "LOST"
                /\ UNCHANGED currentTeam
           ELSE /\ currentTeam' = Other(currentTeam)
                /\ UNCHANGED status
        /\ UNCHANGED scores

\* A wrong guess that hands the turn over only if the team is not the starter.
WrongGuessBackToStarter ==
    LET newWrong == wrongGuesses + 1
        maxGuesses == GUESS_LIMITS[difficulty]
    IN  /\ wrongGuesses' = newWrong
        /\ IF newWrong >= maxGuesses
           THEN /\ status' = "LOST"
                /\ UNCHANGED currentTeam
           ELSE /\ currentTeam' = IF newWrong = 1 THEN Other(currentTeam) ELSE currentTeam
                /\ UNCHANGED status
        /\ UNCHANGED scores

\* Lines 157-167: a wrong guess.
WrongGuess ==
    LET newWrong == wrongGuesses + 1
        maxGuesses == GUESS_LIMITS[difficulty]
    IN  /\ wrongGuesses' = newWrong
        /\ IF newWrong >= maxGuesses
           THEN /\ status' = "LOST"
                /\ UNCHANGED currentTeam
           ELSE /\ currentTeam' = Other(currentTeam)
                /\ UNCHANGED status
        /\ UNCHANGED scores

\* A correct guess that passes the turn on unless it wins.
CorrectGuessSwitches(newGuessed) ==
    /\ IF allGuessed(newGuessed)
       THEN /\ status' = "WON"
            /\ scores' = [scores EXCEPT ![currentTeam] = @ + 1]
            /\ UNCHANGED currentTeam
       ELSE /\ currentTeam' = Other(currentTeam)
            /\ UNCHANGED <<status, scores>>
    /\ UNCHANGED wrongGuesses

\* A correct guess whose winning point goes to the team that started the round.
CorrectGuessAwardsStarter(newGuessed) ==
    /\ IF allGuessed(newGuessed)
       THEN /\ status' = "WON"
            /\ scores' = [scores EXCEPT ![roundStarter] = @ + 1]
       ELSE UNCHANGED <<status, scores>>
    /\ UNCHANGED <<wrongGuesses, currentTeam>>

\* A correct guess that takes a wrong guess back.
CorrectGuessForgives(newGuessed) ==
    /\ IF allGuessed(newGuessed)
       THEN /\ status' = "WON"
            /\ scores' = [scores EXCEPT ![currentTeam] = @ + 1]
       ELSE UNCHANGED <<status, scores>>
    /\ wrongGuesses' = IF wrongGuesses > 0 THEN wrongGuesses - 1 ELSE 0
    /\ UNCHANGED currentTeam

\* A correct guess that scores a point whether or not it completes the word.
CorrectGuessAwardsEach(newGuessed) ==
    /\ scores' = [scores EXCEPT ![currentTeam] = @ + 1]
    /\ IF allGuessed(newGuessed)
       THEN status' = "WON"
       ELSE UNCHANGED status
    /\ UNCHANGED <<wrongGuesses, currentTeam>>

\* Lines 168-180: a correct guess.
CorrectGuess(newGuessed) ==
    /\ IF allGuessed(newGuessed)
       THEN /\ status' = "WON"
            /\ scores' = [scores EXCEPT ![currentTeam] = @ + 1]
       ELSE UNCHANGED <<status, scores>>
    /\ UNCHANGED <<wrongGuesses, currentTeam>>

\* A guess evaluated against the guessed letters of the start of the round.
handleGuessFromRoundStart(letter) ==
    /\ mounted
    /\ IF ~GuessAccepted
       THEN /\ lastEvent' = Event("guessRejected")
            /\ UNCHANGED <<gameVars, seriesVars>>
       ELSE LET newGuessed == {letter}
            IN  /\ guessedLetters' = newGuessed
                /\ IF ~isCorrect(letter)
                   THEN WrongGuess
                   ELSE CorrectGuess(newGuessed)
                /\ lastEvent' = Event("guess")
                /\ UNCHANGED <<difficulty, wordData, images, audioData, errorMsg,
                               usedWords, roundStarter, roundNumber>>
    /\ UNCHANGED <<mounted, loadVars>>

\* A guess whose letter is kept only if it is correct.
handleGuessCorrectOnly(letter) ==
    /\ mounted
    /\ IF ~GuessAccepted
       THEN /\ lastEvent' = Event("guessRejected")
            /\ UNCHANGED <<gameVars, seriesVars>>
       ELSE LET newGuessed == guessedLetters \cup {letter}
            IN  /\ guessedLetters' = IF isCorrect(letter) THEN newGuessed ELSE guessedLetters
                /\ IF ~isCorrect(letter)
                   THEN WrongGuess
                   ELSE CorrectGuess(newGuessed)
                /\ lastEvent' = Event("guess")
                /\ UNCHANGED <<difficulty, wordData, images, audioData, errorMsg,
                               usedWords, roundStarter, roundNumber>>
    /\ UNCHANGED <<mounted, loadVars>>

\* Lines 146-181.
handleGuess(letter) ==
    /\ mounted
    /\ IF ~GuessAccepted
       THEN /\ lastEvent' = Event("guessRejected")
            /\ UNCHANGED <<gameVars, seriesVars>>
       ELSE LET newGuessed == guessedLetters \cup {letter}
            IN  /\ guessedLetters' = newGuessed
                /\ IF ~isCorrect(letter)
                   THEN WrongGuess
                   ELSE CorrectGuess(newGuessed)
                /\ lastEvent' = Event("guess")
                /\ UNCHANGED <<difficulty, wordData, images, audioData, errorMsg,
                               usedWords, roundStarter, roundNumber>>
    /\ UNCHANGED <<mounted, loadVars>>

---------------------------------------------------------------------------
(* The components that render the state *)

\* Keyboard.tsx:14-19 and App.tsx:429: the key of a letter is disabled when
\* status is not PLAYING or the letter has been guessed.
KeyDisabled(letter) == status # "PLAYING" \/ letter \in guessedLetters

\* The letters that have a key that can be pressed.
EnabledKeys == {letter \in Range(keyboardLetters) : ~KeyDisabled(letter)}

\* The figure of the 6-step game, drawn whatever the limit is.
HangmanCanvasStandard(wrong, maxGuesses) ==
    {part \in {"head", "body", "leftArm", "rightArm", "leftLeg", "rightLeg"} :
        wrong >= (CASE part = "head"     -> 1
                    [] part = "body"     -> 2
                    [] part = "leftArm"  -> 3
                    [] part = "rightArm" -> 4
                    [] part = "leftLeg"  -> 5
                    [] part = "rightLeg" -> 6)}

\* HangmanCanvas.tsx:8-45: the parts of the figure that are drawn for a
\* wrong-guess count and a limit.
HangmanCanvas(wrong, maxGuesses) ==
    LET showHead == wrong >= 1
        showBody == wrong >= 2
        showLeftArm  == wrong >= 3
        showRightArm == IF maxGuesses = 8 \/ maxGuesses = 6 THEN wrong >= 4 ELSE wrong >= 3
        showLeftLeg  == IF maxGuesses = 8 \/ maxGuesses = 6 THEN wrong >= 5 ELSE wrong >= 4
        showRightLeg == IF maxGuesses = 8 \/ maxGuesses = 6 THEN wrong >= 6 ELSE wrong >= 4
        showLeftEye  == maxGuesses = 8 /\ wrong >= 7
        showRightEye == maxGuesses = 8 /\ wrong >= 8
    IN  (IF showHead THEN {"head"} ELSE {})
        \cup (IF showBody THEN {"body"} ELSE {})
        \cup (IF showLeftArm THEN {"leftArm"} ELSE {})
        \cup (IF showRightArm THEN {"rightArm"} ELSE {})
        \cup (IF showLeftLeg THEN {"leftLeg"} ELSE {})
        \cup (IF showRightLeg THEN {"rightLeg"} ELSE {})
        \cup (IF showLeftEye THEN {"leftEye"} ELSE {})
        \cup (IF showRightEye THEN {"rightEye"} ELSE {})

---------------------------------------------------------------------------
Next ==
    \/ Mount
    \/ initSeries
    \/ \E d \in Difficulty : startNewSeries(d)
    \/ handleNextRound
    \/ Retry
    \/ \E letter \in Letters : handleGuess(letter)
    \/ \E l \in running : WordFulfilled(l)
    \/ \E l \in running : WordRejected(l)
    \/ \E l \in running : \E i \in 1..3 : ImageFulfilled(l, i)
    \/ \E l \in running : \E i \in 1..3 : ImageRejected(l, i)
    \/ \E l \in running : \E result \in {AudioPcm, AudioEmpty} : AudioSettled(l, result)
    \/ \E r \in inflight : LateSettled(r)

Spec == Init /\ [][Next]_vars

---------------------------------------------------------------------------
(* Properties *)

\* The target letters guessed so far.
CorrectGuessed == guessedLetters \cap Range(wordSegments)

\* Request r leaves the set of requests in flight in this step.
Settles(r) == r \in inflight /\ r \notin inflight'

\* C1: a guess submitted while status is not PLAYING is rejected: the guessed
\* letters, the wrong-guess count, the status, the current team, the scores
\* and every other variable of the game, of the series and of the loads are
\* unchanged, so nothing is kept of the guess to be applied later.
C1_GuessRejectedOutsidePlaying ==
    [][\A letter \in Letters :
          (status # "PLAYING" /\ handleGuess(letter))
              => UNCHANGED <<gameVars, seriesVars, loadVars>>]_vars

\* A guess has just been rejected while a round-load is in flight.
C1_Witness ==
    /\ lastEvent.op = "guessRejected"
    /\ status = "LOADING"
    /\ running # {}

\* C2: in every difficulty the round is LOST exactly when the wrong-guess
\* count has reached the budget: never LOST below it, never PLAYING at or
\* above it, and LOST is entered from PLAYING by the incorrect guess that
\* raises the count by one to the budget.
C2_LostExactlyAtBudget ==
    /\ [](status = "LOST" => wrongGuesses = GUESS_LIMITS[difficulty])
    /\ [](status = "PLAYING" => wrongGuesses < GUESS_LIMITS[difficulty])
    /\ [][(status # "LOST" /\ status' = "LOST")
              => /\ status = "PLAYING"
                 /\ wrongGuesses' = wrongGuesses + 1
                 /\ wrongGuesses' = GUESS_LIMITS[difficulty]
                 /\ difficulty' = difficulty
                 /\ \E letter \in Letters :
                        /\ letter \notin Range(wordSegments)
                        /\ guessedLetters' = guessedLetters \cup {letter}]_vars

\* An EASY round has been lost on its eighth wrong guess.
C2_Witness ==
    /\ status = "LOST"
    /\ difficulty = "EASY"
    /\ wrongGuesses = 8

\* C3: submitting, while PLAYING, a letter that is already among the guessed
\* letters changes neither the wrong-guess count nor the guessed letters, nor
\* the status, the current team or the scores.
C3_RepeatedGuessIdempotent ==
    [][\A letter \in Letters :
          (status = "PLAYING" /\ letter \in guessedLetters /\ handleGuess(letter))
              => UNCHANGED <<wrongGuesses, guessedLetters, status, currentTeam, scores>>]_vars

\* C4 as claimed: a guess in PLAYING is correct (it leaves the wrong-guess
\* count alone) iff the letter is a target letter, and the round becomes WON
\* iff every segment of the word is among the guessed letters with the
\* letter added.
C4_WonIffComplete ==
    [][\A letter \in Letters :
          (status = "PLAYING" /\ handleGuess(letter))
              => /\ (wrongGuesses' = wrongGuesses) <=> (letter \in Range(wordSegments))
                 /\ (status' = "WON")
                        <=> (Range(wordSegments) \subseteq guessedLetters \cup {letter})]_vars

\* What handleGuess does in C4's case: a guess in PLAYING is correct iff the
\* letter is a target letter, and the round becomes WON iff the guess is
\* correct and every
\* segment of the word is among the guessed letters with the letter added;
\* a segment that occurs several times is satisfied by one guess of it.
C4_WonIffCorrectAndComplete ==
    [][\A letter \in Letters :
          (status = "PLAYING" /\ handleGuess(letter))
              => /\ (wrongGuesses' = wrongGuesses) <=> (letter \in Range(wordSegments))
                 /\ (wrongGuesses' = wrongGuesses + 1) <=> (letter \notin Range(wordSegments))
                 /\ (status' = "WON")
                        <=> /\ letter \in Range(wordSegments)
                            /\ Range(wordSegments) \subseteq guessedLetters \cup {letter}]_vars

\* The word maa-maa, whose one segment occurs twice, has been won by the
\* single guess of it.
C4_Witness ==
    /\ status = "WON"
    /\ wordSegments = <<"maa", "maa">>
    /\ guessedLetters = {"maa"}

\* C5: when a request of a round-load settles after a newer round-load has
\* started, its result is discarded: the word, the images, the audio, the
\* status, the guessed letters and the used-word history are unchanged, and
\* so are the error message, the wrong-guess count and the series.
C5_StaleResultDiscarded ==
    [][\A r \in inflight :
          (r.load < loadSeq /\ Settles(r))
              => UNCHANGED <<wordData, images, audioData, status, guessedLetters,
                             usedWords, errorMsg, wrongGuesses, seriesVars>>]_vars

\* A request of an older load has just settled while the round of a newer
\* load is being played and has guesses made.
C5_Witness ==
    /\ lastEvent.op = "lateSettled"
    /\ lastEvent.n < loadSeq
    /\ status = "PLAYING"
    /\ guessedLetters # {}
    /\ Len(images) = 3

\* C6: in PLAYING, an incorrect guess that does not end the round hands the
\* turn to the other team, and a correct guess leaves the turn where it is,
\* whether or not it wins the round.
C6_TurnFlipsOnIncorrectOnly ==
    [][\A letter \in Letters :
          (status = "PLAYING" /\ handleGuess(letter))
              => /\ (letter \notin Range(wordSegments) /\ status' = "PLAYING")
                        => currentTeam' = Other(currentTeam)
                 /\ (letter \in Range(wordSegments))
                        => currentTeam' = currentTeam]_vars

\* A round has been won by the team that got the turn through one incorrect
\* guess of the starter and kept it through two correct guesses.
C6_Witness ==
    /\ status = "WON"
    /\ wrongGuesses = 1
    /\ Cardinality(CorrectGuessed) = 2
    /\ currentTeam = Other(roundStarter)

\* C7 as claimed: with round starter A and the guess outcomes Incorrect,
\* Incorrect, Correct, Incorrect, none ending the round, the four guesses are
\* made by A, then B, then B, then A.  The team that makes a guess is the
\* current team of the state it is made in: the first in the state with no
\* guess, the second after one incorrect guess, the third after two incorrect
\* guesses, the fourth after two incorrect guesses and a correct one.
C7_TurnSequenceABBA ==
    (status = "PLAYING" /\ roundStarter = "A")
        => /\ (wrongGuesses = 0 /\ CorrectGuessed = {}) => currentTeam = "A"
           /\ (wrongGuesses = 1 /\ CorrectGuessed = {}) => currentTeam = "B"
           /\ (wrongGuesses = 2 /\ CorrectGuessed = {}) => currentTeam = "B"
           /\ (wrongGuesses = 2 /\ CorrectGuessed # {}) => currentTeam = "A"

\* C7 as amended: the four guesses are made by A, then B, then A, then A
\* (held after the correct guess), and the turn is B's after the last one.
C7_TurnSequenceABAA ==
    (status = "PLAYING" /\ roundStarter = "A")
        => /\ (wrongGuesses = 0 /\ CorrectGuessed = {}) => currentTeam = "A"
           /\ (wrongGuesses = 1 /\ CorrectGuessed = {}) => currentTeam = "B"
           /\ (wrongGuesses = 2 /\ CorrectGuessed = {}) => currentTeam = "A"
           /\ (wrongGuesses = 2 /\ CorrectGuessed # {}) => currentTeam = "A"
           /\ (wrongGuesses = 3 /\ CorrectGuessed # {}) => currentTeam = "B"

\* A round started by A is still being played after three incorrect guesses
\* and a correct one.
C7_Witness ==
    /\ status = "PLAYING"
    /\ roundStarter = "A"
    /\ wrongGuesses = 3
    /\ Cardinality(CorrectGuessed) = 1
    /\ currentTeam = "B"

\* C8: the step from PLAYING to WON adds exactly 1 to the score of the team
\* that holds the turn at the winning guess and leaves the other score
\* unchanged; the step from PLAYING to LOST changes neither score.
C8_Scoring ==
    [][/\ (status = "PLAYING" /\ status' = "WON")
            => /\ scores'[currentTeam] = scores[currentTeam] + 1
               /\ scores'[Other(currentTeam)] = scores[Other(currentTeam)]
       /\ (status = "PLAYING" /\ status' = "LOST")
            => scores' = scores]_vars

\* Round 2, started by B, has been won by A after B's incorrect guess: the
\* point is A's, on top of the one B won in round 1.
C8_Witness ==
    /\ status = "WON"
    /\ roundNumber = 2
    /\ roundStarter = "B"
    /\ currentTeam = "A"
    /\ wrongGuesses = 1
    /\ scores = [A |-> 1, B |-> 1]

\* C9: when an image request of a round-load fails, the load ends in ERROR
\* with the generic retry message and with no image and no audio stored,
\* whatever the other asset requests returned; the load is over, and no round
\* is PLAYING with fewer than three images.
C9_ImageFailureFailsLoad ==
    /\ [][\A r \in inflight :
              (r.kind = "image" /\ Settles(r) /\ lastEvent'.op = "imageRejected")
                  => /\ status' = "ERROR"
                     /\ errorMsg' = GenericError
                     /\ images' = <<>>
                     /\ audioData' = Null
                     /\ \A l \in running' : l.id # r.load]_vars
    /\ [](status = "PLAYING" => Len(images) = 3 /\ errorMsg = Null)

\* An image request has failed after the two other images and the audio of
\* its load had arrived.
C9_Witness ==
    /\ lastEvent = [op |-> "imageRejected", n |-> 3]
    /\ status = "ERROR"
    /\ images = <<>>
    /\ audioData = Null

\* C10: an audio failure is not fatal.  The step in which the audio request
\* of a load returns nothing never leads to ERROR, and the load whose word
\* and three images arrive and whose audio returned nothing ends in PLAYING
\* with the three images and the empty audio.
C10_AudioFailureNotFatal ==
    [][\A l \in running :
          /\ (Settles(Request(l.id, "audio", 0)) /\ lastEvent'.op = "audioEmpty")
                => /\ status' # "ERROR"
                   /\ l.got = 1..3
                         => /\ status' = "PLAYING"
                            /\ audioData' = AudioEmpty
                            /\ images' = loadedImages(l.data[1])
          /\ (\E i \in 1..3 :
                 /\ Settles(Request(l.id, "image", i))
                 /\ lastEvent'.op = "imageFulfilled"
                 /\ l.got \cup {i} = 1..3
                 /\ l.audio = AudioEmpty)
                => /\ status' = "PLAYING"
                   /\ audioData' = AudioEmpty
                   /\ images' = loadedImages(l.data[1])]_vars

\* A round is being played whose load got its three images and no audio.
C10_Witness ==
    /\ status = "PLAYING"
    /\ audioData = AudioEmpty
    /\ Len(images) = 3
    /\ lastEvent.op = "audioEmpty"

\* The starter of round n when team A starts round 1.
StarterOf(n) == IF n % 2 = 1 THEN "A" ELSE "B"

\* C11: in every reachable state the round starter is A when roundNumber is
\* odd and B when it is even, whatever loads have failed and been retried.
C11_StarterByParity == roundStarter = StarterOf(roundNumber)

\* Round 6 is being played, started by B, after a load of the series failed
\* and was retried.
C11_Witness ==
    /\ roundNumber = TOTAL_ROUNDS
    /\ roundStarter = "B"
    /\ failures = 1
    /\ status = "PLAYING"

\* C12: advancing from a resolved round (WON or LOST): in the last round the
\* status becomes SERIES_OVER, no load is started and roundNumber, the round
\* starter and the scores are unchanged; otherwise roundNumber grows by one,
\* the round starter alternates, the current team is the new starter, and a
\* new round-load begins: status LOADING, with its word request in flight.
C12_AdvanceRound ==
    [][(status \in {"WON", "LOST"} /\ lastEvent'.op = "handleNextRound")
          => IF roundNumber = TOTAL_ROUNDS
             THEN /\ status' = "SERIES_OVER"
                  /\ UNCHANGED <<loadVars, roundNumber, roundStarter, scores>>
             ELSE /\ roundNumber' = roundNumber + 1
                  /\ roundStarter' = Other(roundStarter)
                  /\ currentTeam' = roundStarter'
                  /\ UNCHANGED scores
                  /\ status' = "LOADING"
                  /\ loadSeq' = loadSeq + 1
                  /\ \E l \in running' : l.id = loadSeq' /\ l.phase = "word"
                  /\ Request(loadSeq', "word", 0) \in inflight']_vars

\* The series has just been advanced out of its last round, with points on
\* the board; the five advances before it each started a load.
C12_Witness ==
    /\ lastEvent.op = "handleNextRound"
    /\ status = "SERIES_OVER"
    /\ roundNumber = TOTAL_ROUNDS
    /\ scores["A"] + scores["B"] > 0
    /\ loadSeq >= TOTAL_ROUNDS

\* C13: roundNumber is always within 1..TOTAL_ROUNDS, and SERIES_OVER is
\* entered only from WON or LOST with roundNumber = TOTAL_ROUNDS.
C13_RoundNumberInRange ==
    /\ [](roundNumber \in 1..TOTAL_ROUNDS)
    /\ [][(status # "SERIES_OVER" /\ status' = "SERIES_OVER")
              => /\ status \in {"WON", "LOST"}
                 /\ roundNumber = TOTAL_ROUNDS
                 /\ roundNumber' = TOTAL_ROUNDS]_vars

\* The series is over after its sixth round was lost.
C13_Witness ==
    /\ status = "SERIES_OVER"
    /\ roundNumber = TOTAL_ROUNDS
    /\ wrongGuesses = GUESS_LIMITS[difficulty]

\* C14: the series resolution is a function of the final scores alone: for
\* every pair of scores in 0..6, and for the scores of every finished series,
\* the winner is the team with the strictly higher score, and equal scores
\* give a tie.
C14_SeriesResolution ==
    /\ \A a, b \in 0..TOTAL_ROUNDS :
          LET s == [A |-> a, B |-> b]
          IN  /\ (winner(s) = "Team A") <=> (a > b)
              /\ (winner(s) = "Team B") <=> (b > a)
              /\ (winner(s) = "Tie") <=> (a = b)
    /\ status = "SERIES_OVER"
          => /\ (winner(scores) = "Team A") <=> (scores["A"] > scores["B"])
             /\ (winner(scores) = "Team B") <=> (scores["B"] > scores["A"])
             /\ (winner(scores) = "Tie") <=> (scores["A"] = scores["B"])

\* A series has ended two all, and the screen shows a tie.
C14_Witness ==
    /\ status = "SERIES_OVER"
    /\ scores = [A |-> 2, B |-> 2]
    /\ winner(scores) = "Tie"

\* C15: the composed keyboard is a sequence of unique letters whose set is
\* the target letter set S together with the distractor letters D that are
\* not in S, so that it has exactly |S \cup (D \ S)| entries.
C15_KeyboardUnique ==
    wordData # <<>> =>
        LET S == Range(wordSegments)
            D == Range(wordData[1].distractorLetters)
        IN  /\ Range(keyboardLetters) = S \cup (D \ S)
            /\ Len(keyboardLetters) = Cardinality(S \cup (D \ S))
            /\ \A i, j \in DOMAIN keyboardLetters :
                  keyboardLetters[i] = keyboardLetters[j] => i = j

\* C16: the limits are 8 for EASY, 6 for MEDIUM and 4 for HARD, in falling
\* order; a round is lost by the wrong guess that reaches the limit of the
\* series' difficulty, and by no wrong guess below it; the difficulty is set
\* only by the selection that starts a series at round 1.
C16_BudgetOfDifficulty ==
    /\ [](/\ GUESS_LIMITS["EASY"] = 8
          /\ GUESS_LIMITS["MEDIUM"] = 6
          /\ GUESS_LIMITS["HARD"] = 4
          /\ GUESS_LIMITS["EASY"] > GUESS_LIMITS["MEDIUM"]
          /\ GUESS_LIMITS["MEDIUM"] > GUESS_LIMITS["HARD"])
    /\ [][(status = "PLAYING" /\ wrongGuesses' = wrongGuesses + 1)
              => ((status' = "LOST") <=> (wrongGuesses' = GUESS_LIMITS[difficulty]))]_vars
    /\ [][(difficulty' # difficulty)
              => /\ lastEvent'.op = "startNewSeries"
                 /\ roundNumber' = 1
                 /\ status' = "LOADING"]_vars

\* A round of a HARD series has been lost at the fourth wrong guess.
C16_Witness ==
    /\ status = "LOST"
    /\ difficulty = "HARD"
    /\ wrongGuesses = 4
    /\ lastEvent.op = "guess"

\* C17: in every round-load an image or audio request is issued only in the
\* step in which the word request of its load is fulfilled, so none is
\* issued before the word has arrived and none at all when the word request
\* fails; and status becomes PLAYING only from LOADING, once no request of
\* that load is in flight and its three images and its audio are stored.
C17_WordBeforeAssets ==
    /\ [](\A r \in inflight :
             r.kind # "word" => Request(r.load, "word", 0) \notin inflight)
    /\ [][\A r \in inflight' \ inflight :
             r.kind # "word"
                 => /\ lastEvent'.op = "wordFulfilled"
                    /\ Settles(Request(r.load, "word", 0))]_vars
    /\ [][(lastEvent'.op = "wordRejected" /\ lastEvent' # lastEvent)
             => /\ inflight' \subseteq inflight
                /\ \A r \in inflight' : r.load # loadSeq]_vars
    /\ [][(status # "PLAYING" /\ status' = "PLAYING")
             => /\ status = "LOADING"
                /\ \A r \in inflight' : r.load # loadSeq
                /\ \E l \in running : l.id = loadSeq /\ l.phase = "assets"
                /\ Len(images') = 3
                /\ audioData' # Null]_vars

\* A load has just reached PLAYING at the arrival of its last image, its
\* audio having arrived before; nothing is in flight.
C17_Witness ==
    /\ status = "PLAYING"
    /\ lastEvent.op = "imageFulfilled"
    /\ audioData = AudioPcm
    /\ Len(images) = 3
    /\ inflight = {}
    /\ guessedLetters = {}

\* C18: there is no automatic retry: while status is ERROR no request is
\* issued and the status stays ERROR until the Retry button is used; the
\* retry restarts the load from its first step: status LOADING, the round
\* state cleared, and the word request of a new load the one request issued.
C18_NoAutoRetry ==
    /\ [][(status = "ERROR" /\ lastEvent'.op # "retry")
             => /\ inflight' \subseteq inflight
                /\ status' = "ERROR"
                /\ UNCHANGED <<loadSeq, running>>]_vars
    /\ [][(status = "ERROR" /\ lastEvent'.op = "retry")
             => /\ status' = "LOADING"
                /\ errorMsg' = Null
                /\ guessedLetters' = {}
                /\ wrongGuesses' = 0
                /\ images' = <<>>
                /\ audioData' = Null
                /\ loadSeq' = loadSeq + 1
                /\ inflight' \ inflight = {Request(loadSeq', "word", 0)}
                /\ \E l \in running' : l.id = loadSeq' /\ l.phase = "word"]_vars

\* The load of a round failed at an image after its word had arrived, and
\* the retry has just started a new load.
C18_Witness ==
    /\ lastEvent.op = "retry"
    /\ status = "LOADING"
    /\ failures = 1
    /\ wordData # <<>>
    /\ Request(loadSeq, "word", 0) \in inflight

\* C19: whenever status is LOADING the guessed letters are empty, the
\* wrong-guess count is 0, there are no images and no audio; every round
\* enters PLAYING with no guessed letter and no wrong guess.
C19_LoadingIsCleared ==
    /\ [](status = "LOADING"
            => /\ guessedLetters = {}
               /\ wrongGuesses = 0
               /\ images = <<>>
               /\ audioData = Null)
    /\ [][(status # "PLAYING" /\ status' = "PLAYING")
            => /\ guessedLetters' = {}
               /\ wrongGuesses' = 0]_vars

\* The second round has just been presented, after a first round in which
\* a point was scored.
C19_Witness ==
    /\ status = "PLAYING"
    /\ roundNumber = 2
    /\ scores["A"] + scores["B"] = 1
    /\ guessedLetters = {}
    /\ wrongGuesses = 0
    /\ lastEvent.op = "audioFulfilled"

\* C20: a round-load is started only when status is IDLE, DIFFICULTY_SELECT,
\* ERROR, WON or LOST, and while no other is suspended; so at most one
\* loadPuzzle invocation is under way at any time, and it is the latest.
C20_OneLoadAtATime ==
    /\ [][(loadSeq' # loadSeq)
             => /\ status \in {"IDLE", "DIFFICULTY_SELECT", "ERROR", "WON", "LOST"}
                /\ running = {}
                /\ loadSeq' = loadSeq + 1]_vars
    /\ [](Cardinality(running) <= 1)
    /\ [](\A l \in running : l.id = loadSeq /\ status = "LOADING")

\* A load is under way, its word arrived, while a request of the failed
\* load before it is still in flight.
C20_Witness ==
    /\ Cardinality(running) = 1
    /\ Late(inflight, running) # {}
    /\ lastEvent.op = "wordFulfilled"
    /\ status = "LOADING"

\* C21: WON and LOST are terminal for the round: from either the status can
\* only change to LOADING or SERIES_OVER, and until it does the guessed
\* letters, the wrong-guess count, the current team and the scores are frozen.
C21_ResolvedIsTerminal ==
    [][(status \in {"WON", "LOST"})
          => (\/ status' \in {"LOADING", "SERIES_OVER"}
              \/ /\ status' = status
                 /\ UNCHANGED <<guessedLetters, wrongGuesses, currentTeam, scores>>)]_vars

\* A guess has just been submitted in a round that is won, and rejected.
C21_Witness ==
    /\ lastEvent.op = "guessRejected"
    /\ status = "WON"
    /\ guessedLetters # {}

\* C22: PLAYING is entered only from LOADING, by the settlement of an asset
\* request of the load under way that completes it; ERROR is entered only
\* from LOADING, by the rejection of a request of the load under way.
C22_EnteredFromLoading ==
    /\ [][(status # "PLAYING" /\ status' = "PLAYING")
             => /\ status = "LOADING"
                /\ lastEvent'.op \in {"imageFulfilled", "audioFulfilled", "audioEmpty"}
                /\ \E r \in inflight : r.load = loadSeq /\ Settles(r)
                /\ \A r \in inflight' : r.load # loadSeq]_vars
    /\ [][(status # "ERROR" /\ status' = "ERROR")
             => /\ status = "LOADING"
                /\ lastEvent'.op \in {"wordRejected", "imageRejected"}
                /\ \E r \in inflight : r.load = loadSeq /\ Settles(r)]_vars

\* The load of the second round has just failed at its word request.
C22_Witness ==
    /\ status = "ERROR"
    /\ lastEvent.op = "wordRejected"
    /\ roundNumber = 2

\* C23: every word request passes as the history the words the provider
\* returned earlier in the current series, which usedWords holds (cleared at
\* the start of a series, extended by each word that arrives); the first
\* word request of a series passes an empty history.
C23_HistoryOfSeries ==
    /\ [](\A l \in running : l.phase = "word" => l.previousWords = usedWords)
    /\ [][lastEvent'.op = "startNewSeries"
             => \A l \in running' : l.previousWords = <<>>]_vars

C25_WrongGuessCount ==
    /\ [](wrongGuesses \in 0..GUESS_LIMITS[difficulty])
    /\ [][(wrongGuesses' # wrongGuesses)
             => \/ /\ wrongGuesses' = 0
                   /\ loadSeq' = loadSeq + 1
                   /\ status' = "LOADING"
                \/ /\ status = "PLAYING"
                   /\ wrongGuesses' = wrongGuesses + 1
                   /\ \E letter \in Letters : handleGuess(letter) /\ ~isCorrect(letter)]_vars
    /\ [][\A letter \in Letters :
             (status = "PLAYING" /\ handleGuess(letter) /\ isCorrect(letter))
                 => wrongGuesses' = wrongGuesses]_vars

\* An EASY round is one wrong guess from its limit, with a target letter
\* found among the seven wrong guesses.
C25_Witness ==
    /\ status = "PLAYING"
    /\ difficulty = "EASY"
    /\ wrongGuesses = 7
    /\ CorrectGuessed # {}

\* C26: the guessed letters grow monotonically within a round: no letter is
\* removed except by the start of a round-load, which empties them, and
\* every accepted guess in PLAYING adds its letter.
C26_GuessedLettersGrow ==
    /\ [][\/ guessedLetters \subseteq guessedLetters'
          \/ /\ guessedLetters' = {}
             /\ loadSeq' = loadSeq + 1
             /\ status' = "LOADING"]_vars
    /\ [][\A letter \in Letters :
             (status = "PLAYING" /\ handleGuess(letter))
                 => letter \in guessedLetters']_vars

\* The second round has been lost with three different letters guessed.
C26_Witness ==
    /\ status = "LOST"
    /\ roundNumber = 2
    /\ Cardinality(guessedLetters) = 3

\* C27: the current team is the round starter whenever status is LOADING,
\* and at the moment a round enters PLAYING, also after a failed load and its
\* retry.
C27_TurnStartsWithStarter ==
    /\ [](status = "LOADING" => currentTeam = roundStarter)
    /\ [][(status # "PLAYING" /\ status' = "PLAYING")
             => currentTeam' = roundStarter']_vars

\* The load of round 2, which B starts, failed and has just been retried.
C27_Witness ==
    /\ status = "LOADING"
    /\ lastEvent.op = "retry"
    /\ roundNumber = 2
    /\ roundStarter = "B"
    /\ currentTeam = "B"
    /\ failures = 1

\* C28: whenever status is PLAYING, WON or LOST the round holds exactly
\* three images: the first for the target's gloss, the second and the third
\* for distractor 1 and distractor 2 of the word record; exactly one of them
\* has isTarget true, the one labelled with the gloss.
C28_ThreeImages ==
    status \in {"PLAYING", "WON", "LOST"}
        => /\ wordData # <<>>
           /\ Len(images) = 3
           /\ Len(wordData[1].distractors) >= 2
           /\ images[1].label = wordData[1].english
           /\ images[2].label = wordData[1].distractors[1]
           /\ images[3].label = wordData[1].distractors[2]
           /\ \A i \in 1..3 : images[i].isTarget <=> (i = 1)
           /\ \A i \in 1..3 : images[i].isTarget <=> (images[i].label = wordData[1].english)

\* C29: a word record with fewer than 2 distractor labels or with an empty
\* list of distractor letters never reaches PLAYING.
C29_InvalidRecordIsError ==
    status = "PLAYING"
        => /\ Len(wordData[1].distractors) >= 2
           /\ wordData[1].distractorLetters # <<>>

\* C30: each round awards at most one point: the two scores together are at
\* most the number of rounds of the series that were won, which is at most
\* roundNumber (less one while the round is not won), and roundNumber is at
\* most 6; a score changes only by the point of the guess that wins a round,
\* or back to 0 at the start of a series.
C30_OnePointPerRound ==
    /\ [](/\ scores["A"] + scores["B"] <= roundNumber
          /\ roundNumber <= TOTAL_ROUNDS
          /\ status \in {"LOADING", "PLAYING", "ERROR", "LOST"}
                => scores["A"] + scores["B"] <= roundNumber - 1)
    /\ [][(scores' # scores)
             => \/ /\ lastEvent'.op = "startNewSeries"
                   /\ scores' = [A |-> 0, B |-> 0]
                   /\ roundNumber' = 1
                \/ /\ status = "PLAYING" /\ status' = "WON"
                   /\ scores'["A"] + scores'["B"] = scores["A"] + scores["B"] + 1
                   /\ \A t \in Team : scores'[t] >= scores[t]]_vars

\* The first two rounds of a series have both been won.
C30_Witness ==
    /\ status = "WON"
    /\ roundNumber = 2
    /\ scores["A"] + scores["B"] = 2

\* C31: a round that is being played can go on: a state in which status is
\* PLAYING and no key of the keyboard is enabled is unreachable.
C31_PlayingHasEnabledKey ==
    status = "PLAYING" => EnabledKeys # {}

\* C32: in every PLAYING state each target segment that has not been guessed
\* is on the keyboard, and its key is enabled.
C32_RoundStaysWinnable ==
    status = "PLAYING"
        => \A i \in DOMAIN wordSegments :
              wordSegments[i] \notin guessedLetters
                  => /\ \E k \in DOMAIN keyboardLetters : keyboardLetters[k] = wordSegments[i]
                     /\ wordSegments[i] \in EnabledKeys

\* The round of the word ka-N, whose record lists ka among its distractor
\* letters, is being played with ka and a wrong letter guessed: the key of N
\* is enabled, the key of ka is not.
C32_Witness ==
    /\ status = "PLAYING"
    /\ wordSegments = <<"ka", "N">>
    /\ guessedLetters = {"ka", "maa"}
    /\ "N" \in EnabledKeys
    /\ "ka" \notin EnabledKeys

\* C33: status and word completion agree: whenever status is PLAYING or LOST
\* at least one target segment is not among the guessed letters, and
\* whenever status is WON every target segment is.
C33_StatusAgreesWithCompletion ==
    /\ status \in {"PLAYING", "LOST"}
          => \E i \in DOMAIN wordSegments : wordSegments[i] \notin guessedLetters
    /\ status = "WON"
          => \A i \in DOMAIN wordSegments : wordSegments[i] \in guessedLetters

\* C34: a failed round-load and its retry change no series state: every step
\* taken while status is LOADING or ERROR leaves the scores, roundNumber, the
\* round starter, the current team and the difficulty as they are.
C34_RetryKeepsSeries ==
    [][(status \in {"LOADING", "ERROR"})
          => UNCHANGED <<scores, roundNumber, roundStarter, currentTeam, difficulty>>]_vars

\* Round 3 is being played on the load that followed a failed one, with a
\* point in the series.
C34_Witness ==
    /\ status = "PLAYING"
    /\ roundNumber = 3
    /\ loadSeq = 4
    /\ failures = 1
    /\ scores["A"] + scores["B"] >= 1
    /\ currentTeam = roundStarter

\* C35: the start of a series leaves the scores 0-0, roundNumber 1, the
\* round starter and the current team A and the difficulty the one selected,
\* whatever the state before; the difficulty changes at no other step.
C35_SeriesStartsClean ==
    /\ [][\A d \in Difficulty :
             startNewSeries(d)
                 => /\ scores' = [A |-> 0, B |-> 0]
                    /\ roundNumber' = 1
                    /\ roundStarter' = "A"
                    /\ currentTeam' = "A"
                    /\ difficulty' = d]_vars
    /\ [][(lastEvent'.op # "startNewSeries") => difficulty' = difficulty]_vars

\* A second series has just been started in another difficulty, after a
\* series that ended at round 6.
C35_Witness ==
    /\ lastEvent.op = "startNewSeries"
    /\ loadSeq > TOTAL_ROUNDS
    /\ difficulty = "HARD"
    /\ usedWords = <<>>
    /\ scores = [A |-> 0, B |-> 0]
    /\ roundNumber = 1

\* The part of the figure that is drawn last in a difficulty.
LastPart(d) == IF d = "EASY" THEN "rightEye" ELSE "rightLeg"

\* C36: for the limit of each difficulty the parts of the figure that are
\* drawn grow with the wrong-guess count, none is drawn at 0, and the last
\* part of the figure (the right eye for 8, the right leg for 6 and 4) is
\* drawn exactly when the count has reached the limit; so it is in every
\* state the game reaches.
C36_FigureFollowsCount ==
    /\ \A d \in Difficulty :
          LET maxGuesses == GUESS_LIMITS[d]
          IN  /\ HangmanCanvas(0, maxGuesses) = {}
              /\ \A w \in 0..(maxGuesses - 1) :
                    HangmanCanvas(w, maxGuesses) \subseteq HangmanCanvas(w + 1, maxGuesses)
              /\ \A w \in 0..maxGuesses :
                    (LastPart(d) \in HangmanCanvas(w, maxGuesses)) <=> (w = maxGuesses)
    /\ (LastPart(difficulty) \in HangmanCanvas(wrongGuesses, GUESS_LIMITS[difficulty]))
          <=> (wrongGuesses = GUESS_LIMITS[difficulty])
    /\ (status = "LOST")
          => LastPart(difficulty) \in HangmanCanvas(wrongGuesses, GUESS_LIMITS[difficulty])

\* A MEDIUM round has been lost and the whole figure of six parts is drawn.
C36_Witness ==
    /\ status = "LOST"
    /\ difficulty = "MEDIUM"
    /\ Cardinality(HangmanCanvas(wrongGuesses, GUESS_LIMITS[difficulty])) = 6

===========================================================================
